---- MODULE Spec2Model ----
(***************************************************************************)
(* Model of the MINC material-segmentation plotting helpers                *)
(* (material_segmentation/minc_plotting.py) and of the NCS demo launcher   *)
(* (ncs_demos/runGUI_NCS.py).                                              *)
(*                                                                         *)
(* Python values are modelled by what the code does with them:             *)
(*   - a str the code builds or iterates (a class name, a tick label) is a *)
(*     sequence of one-character strings, so that iterating it, as zip     *)
(*     does, yields its characters; a str that is only passed on (a path,  *)
(*     a command-line value) is a string;                                  *)
(*   - a value whose Python type decides a branch carries its type in a    *)
(*     "type" field (None, str, list, dict, ndarray);                      *)
(*   - a call ends in a record [outcome, value]: outcome "returned" or the *)
(*     name of the exception that left it.                                 *)
(*   - a 2-D ndarray is [shape |-> <<rows, cols>>, data |-> rows], data    *)
(*     being the sequence of its rows.                                     *)
(***************************************************************************)
EXTENDS Integers, Sequences, FiniteSets, TLC

VARIABLES
    \* get_class_names / get_tick_labels called on their own
    class_numbers, names_result, labels_result,
    \* modify_class_map called on its own
    class_map, remap_result, prev_result,
    \* colorbar tick computation of plot_class_map/plot_output/get_class_plot
    unique_classes, loc,
    \* class-map derivation of the four plotting entry points
    network_output, caller, derived,
    \* runGUI_NCS.py __main__
    args, disk_files, pc, input_stream, video, sa, events,
    \* plot_output / plot_probability_maps against the file system
    now, dirs, files, log_handles, last_call

labelVars == <<class_numbers, names_result, labels_result>>
remapVars == <<class_map, remap_result, prev_result>>
tickVars  == <<unique_classes, loc>>
plotVars  == <<network_output, caller, derived>>
demoVars  == <<args, disk_files, pc, input_stream, video, sa, events>>
fileVars  == <<now, dirs, files, log_handles, last_call>>

vars == <<labelVars, remapVars, tickVars, plotVars, demoVars, fileVars>>

----------------------------------------------------------------------------
(* Python values *)

None == [type |-> "NoneType"]

PyStr(chars) == [type |-> "str", val |-> chars]

PyList(items) == [type |-> "list", val |-> items]

Returned(v) == [outcome |-> "returned", value |-> v]

Raised(exc) == [outcome |-> exc, value |-> None]

Pending == [outcome |-> "pending", value |-> None]

Min(a, b) == IF a <= b THEN a ELSE b

\* str(n) for an int: its decimal digits, "-" first when negative
Digit(d) == <<"0", "1", "2", "3", "4", "5", "6", "7", "8", "9">>[d + 1]

RECURSIVE NatToStr(_)
NatToStr(n) == IF n < 10 THEN <<Digit(n)>> ELSE NatToStr(n \div 10) \o <<Digit(n % 10)>>

str(n) == IF n < 0 THEN <<"-">> \o NatToStr(-n) ELSE NatToStr(n)

----------------------------------------------------------------------------
(* The class catalog *)

CLASS_LIST ==
       0 :> <<"b", "r", "i", "c", "k">>
    @@ 1 :> <<"c", "a", "r", "p", "e", "t">>
    @@ 2 :> <<"c", "e", "r", "a", "m", "i", "c">>
    @@ 3 :> <<"f", "a", "b", "r", "i", "c">>
    @@ 4 :> <<"f", "o", "l", "i", "a", "g", "e">>
    @@ 5 :> <<"f", "o", "o", "d">>
    @@ 6 :> <<"g", "l", "a", "s", "s">>
    @@ 7 :> <<"h", "a", "i", "r">>
    @@ 8 :> <<"l", "e", "a", "t", "h", "e", "r">>
    @@ 9 :> <<"m", "e", "t", "a", "l">>
    @@ 10 :> <<"m", "i", "r", "r", "o", "r">>
    @@ 11 :> <<"o", "t", "h", "e", "r">>
    @@ 12 :> <<"p", "a", "i", "n", "t", "e", "d">>
    @@ 13 :> <<"p", "a", "p", "e", "r">>
    @@ 14 :> <<"p", "l", "a", "s", "t", "i", "c">>
    @@ 15 :> <<"p", "o", "l", "i", "s", "h", "e", "d", "s", "t", "o", "n", "e">>
    @@ 16 :> <<"s", "k", "i", "n">>
    @@ 17 :> <<"s", "k", "y">>
    @@ 18 :> <<"s", "t", "o", "n", "e">>
    @@ 19 :> <<"t", "i", "l", "e">>
    @@ 20 :> <<"w", "a", "l", "l", "p", "a", "p", "e", "r">>
    @@ 21 :> <<"w", "a", "t", "e", "r">>
    @@ 22 :> <<"w", "o", "o", "d">>

\* CLASS_LIST.get(number): the name, or None for a key the dict does not hold
CLASS_LIST_get(number) ==
    IF number \in DOMAIN CLASS_LIST THEN PyStr(CLASS_LIST[number]) ELSE None

----------------------------------------------------------------------------
(* get_class_names, get_tick_labels *)

\* One name per number; a single name is returned bare, not in a list.
get_class_names(numbers) ==
    LET class_names == [i \in 1..Len(numbers) |-> CLASS_LIST_get(numbers[i])]
    IN  IF Len(class_names) = 1 THEN class_names[1] ELSE PyList(class_names)

\* What iterating a value yields: the items of a list, the characters of a str.
IterItems(v) ==
    IF v.type = "str" THEN [i \in 1..Len(v.val) |-> PyStr(<<v.val[i]>>)] ELSE v.val

\* str(number) + ": " + name
TickLabel(number, name) == str(number) \o <<":", " ">> \o name.val

get_tick_labels(numbers) ==
    LET class_names == get_class_names(numbers)
    IN  IF class_names.type = "NoneType"
        THEN Raised("TypeError")                  \* zip over None
        ELSE LET items == IterItems(class_names)
                 n     == Min(Len(numbers), Len(items))   \* zip stops at the shorter
             IN  IF \E i \in 1..n : items[i].type = "NoneType"
                 THEN Raised("TypeError")         \* str + None
                 ELSE Returned([i \in 1..n |-> TickLabel(numbers[i], items[i])])

----------------------------------------------------------------------------
(* Values the variables of the other parts hold while one part is checked *)

IdleLabels == class_numbers = <<>> /\ names_result = Pending /\ labels_result = Pending

----------------------------------------------------------------------------
(* Label construction on its own: a sequence of codes is given, the two   *)
(* functions are called on it.                                            *)

MaxLabels == 3

\* Codes of the catalog (its first, its last, some between) and codes it lacks
LabelCodes == {-1, 0, 9, 21, 22, 23}

CodeSeqs == UNION {[1..n -> LabelCodes] : n \in 0..MaxLabels}

InitLabels ==
    /\ class_numbers \in CodeSeqs
    /\ names_result = Pending
    /\ labels_result = Pending

CallGetClassNames ==
    /\ names_result = Pending
    /\ names_result' = Returned(get_class_names(class_numbers))
    /\ UNCHANGED <<class_numbers, labels_result>>

CallGetTickLabels ==
    /\ labels_result = Pending
    /\ labels_result' = get_tick_labels(class_numbers)
    /\ UNCHANGED <<class_numbers, names_result>>

InCatalog(numbers) == \A i \in 1..Len(numbers) : numbers[i] \in DOMAIN CLASS_LIST

\* C2: for every sequence of n >= 1 catalog codes get_tick_labels returns
\* exactly n labels, the i-th being the decimal text of the i-th code, then
\* ": ", then the full catalog name of that code; [0, 9, 21] gives
\* ["0: brick", "9: metal", "21: water"] and [9] gives ["9: metal"].
C2_TickLabelsFullNames ==
    (labels_result # Pending /\ Len(class_numbers) >= 1 /\ InCatalog(class_numbers)) =>
        /\ labels_result.outcome = "returned"
        /\ Len(labels_result.value) = Len(class_numbers)
        /\ \A i \in 1..Len(class_numbers) :
              labels_result.value[i] =
                  str(class_numbers[i]) \o <<":", " ">> \o CLASS_LIST[class_numbers[i]]
        /\ (class_numbers = <<0, 9, 21>> =>
              labels_result.value =
                  << <<"0", ":", " ", "b", "r", "i", "c", "k">>,
                     <<"9", ":", " ", "m", "e", "t", "a", "l">>,
                     <<"2", "1", ":", " ", "w", "a", "t", "e", "r">> >>)
        /\ (class_numbers = <<9>> =>
              labels_result.value = << <<"9", ":", " ", "m", "e", "t", "a", "l">> >>)

\* The same statement for two or more codes, where the names come back as a list.
TickLabelsFullNamesFromTwo ==
    (labels_result # Pending /\ Len(class_numbers) >= 2 /\ InCatalog(class_numbers)) =>
        /\ labels_result.outcome = "returned"
        /\ Len(labels_result.value) = Len(class_numbers)
        /\ \A i \in 1..Len(class_numbers) :
              labels_result.value[i] =
                  str(class_numbers[i]) \o <<":", " ">> \o CLASS_LIST[class_numbers[i]]

\* What a single catalog code gives: one label, ending after the name's first letter.
TickLabelSingleCode ==
    (labels_result # Pending /\ Len(class_numbers) = 1 /\ InCatalog(class_numbers)) =>
        labels_result =
            Returned(<< str(class_numbers[1]) \o <<":", " ">>
                        \o <<CLASS_LIST[class_numbers[1]][1]>> >>)

\* C4: get_tick_labels never fails on a code the catalog lacks: for every
\* sequence of codes it returns normally, with one label per code.
C4_TickLabelsNeverFail ==
    labels_result # Pending =>
        /\ labels_result.outcome = "returned"
        /\ Len(labels_result.value) = Len(class_numbers)

\* What a code the catalog lacks gives: TypeError, whatever else is in the sequence.
TickLabelsAbsentCodeRaises ==
    (labels_result # Pending /\ ~InCatalog(class_numbers)) =>
        labels_result = Raised("TypeError")

----------------------------------------------------------------------------
(* numpy arrays and modify_class_map *)

\* np.array(rows) for a list of equally long lists; np.array([]) is 1-D, shape (0,)
np_array(rows) ==
    IF rows = <<>>
    THEN [shape |-> <<0>>, data |-> <<>>]
    ELSE [shape |-> <<Len(rows), Len(rows[1])>>, data |-> rows]

\* a.size
Size(a) == IF Len(a.shape) = 1 THEN a.shape[1] ELSE a.shape[1] * a.shape[2]

\* The values an array of one or two dimensions holds
Values(a) ==
    IF Len(a.shape) = 1
    THEN {a.data[i] : i \in 1..a.shape[1]}
    ELSE {a.data[i][j] : i \in 1..a.shape[1], j \in 1..a.shape[2]}

RECURSIVE Ascending(_)
Ascending(S) ==
    IF S = {} THEN <<>>
    ELSE LET m == CHOOSE x \in S : \A y \in S : x <= y
         IN  <<m>> \o Ascending(S \ {m})

\* np.unique(a).tolist(): the distinct values of a, ascending
np_unique(a) == Ascending(Values(a))

\* range(0, n) as a list
range0(n) == [i \in 1..n |-> i - 1]

\* value_dict with the ranks counted from 1 (range(1, len + 1))
value_dict_from_one(a) ==
    LET unique_values == np_unique(a)
    IN  [v \in Values(a) |-> CHOOSE i \in 1..Len(unique_values) : unique_values[i] = v]

\* value_dict over the distinct values in descending order
value_dict_descending(a) ==
    LET unique_values == np_unique(a)
    IN  [v \in Values(a) |->
            Len(unique_values) - (CHOOSE i \in 1..Len(unique_values) : unique_values[i] = v)]

\* {a: b for (a, b) in zip(unique_values, modified_values)}
value_dict(a) ==
    LET unique_values   == np_unique(a)
        modified_values == range0(Len(unique_values))
    IN  [v \in {unique_values[i] : i \in 1..Len(unique_values)} |->
            modified_values[CHOOSE i \in 1..Len(unique_values) : unique_values[i] = v]]

\* d.get(k)
dict_get(d, k) == IF k \in DOMAIN d THEN d[k] ELSE None

\* modify_class_map with a guard that raises on an array without elements
modify_class_map_rejecting_empty(a) ==
    IF Size(a) = 0
    THEN Raised("ValueError")
    ELSE Returned(np_array([i \in 1..a.shape[1] |->
                     [j \in 1..a.shape[2] |-> dict_get(value_dict(a), a.data[i][j])]]))

\* The outer comprehension runs over range(0, shape[0]); shape[1] is read once
\* per row, so only an array with rows must have a second dimension.
modify_class_map(a) ==
    IF a.shape[1] = 0
    THEN Returned(np_array(<<>>))
    ELSE IF Len(a.shape) < 2
    THEN Raised("IndexError")
    ELSE Returned(np_array([i \in 1..a.shape[1] |->
                     [j \in 1..a.shape[2] |-> dict_get(value_dict(a), a.data[i][j])]]))

----------------------------------------------------------------------------
(* Remapping on its own: a class map is given, modify_class_map is called  *)
(* on it, and once more on what it returned.                               *)

MaxCells == 4

\* Codes a class map is filled with: 0 and 1 are dense, 9 and 21 leave gaps
MapCodes == {0, 1, 9, 21}

\* Shapes of up to MaxCells cells, those without any cell among them
MapShapes == {s \in (0..MaxCells) \X (0..MaxCells) : s[1] * s[2] <= MaxCells}

IdleRemap == class_map = np_array(<<>>) /\ remap_result = Pending /\ prev_result = Pending

InitRemap ==
    /\ \E s \in MapShapes : \E d \in [1..s[1] -> [1..s[2] -> MapCodes]] :
          class_map = [shape |-> s, data |-> d]
    /\ remap_result = Pending
    /\ prev_result = Pending

CallModifyClassMap ==
    /\ remap_result = Pending
    /\ remap_result' = modify_class_map(class_map)
    /\ UNCHANGED <<class_map, prev_result>>

\* modify_class_map(modify_class_map(M)): the array returned is remapped again
RemapAgain ==
    /\ remap_result.outcome = "returned"
    /\ prev_result = Pending
    /\ class_map' = remap_result.value
    /\ prev_result' = remap_result
    /\ remap_result' = modify_class_map(remap_result.value)


\* The cells of a 2-D array
Cells(a) == (1..a.shape[1]) \X (1..a.shape[2])

At(a, p) == a.data[p[1]][p[2]]

\* C1: for every non-empty 2-D integer array M with k distinct values,
\* modify_class_map(M) returns an array R of the same shape whose set of values
\* is exactly {0..k-1} and, for all cells p and q, M[p] = M[q] iff R[p] = R[q]
\* and M[p] < M[q] iff R[p] < R[q].
C1_RemapIsRank ==
    (remap_result # Pending /\ Len(class_map.shape) = 2 /\ Size(class_map) > 0) =>
        /\ remap_result.outcome = "returned"
        /\ remap_result.value.shape = class_map.shape
        /\ Values(remap_result.value) = 0..(Cardinality(Values(class_map)) - 1)
        /\ \A p \in Cells(class_map), q \in Cells(class_map) :
              /\ (At(class_map, p) = At(class_map, q))
                    <=> (At(remap_result.value, p) = At(remap_result.value, q))
              /\ (At(class_map, p) < At(class_map, q))
                    <=> (At(remap_result.value, p) < At(remap_result.value, q))

\* [[0, 9], [9, 21]] has been remapped to [[0, 1], [1, 2]]
C1_Witness ==
    /\ prev_result = Pending
    /\ class_map = np_array(<< <<0, 9>>, <<9, 21>> >>)
    /\ remap_result = Returned(np_array(<< <<0, 1>>, <<1, 2>> >>))

\* C5 as stated: modify_class_map rejects empty input, and only empty input:
\* a call on an array with zero elements ends in an error, a call on a
\* non-empty array returns normally.
C5_RejectsEmptyInput ==
    remap_result # Pending =>
        ((Size(class_map) = 0) <=> (remap_result.outcome # "returned"))

\* C5 as amended: modify_class_map has no error condition: on every 2-D
\* integer array, with or without elements, it returns normally, and what it
\* returns for an array with zero elements has zero elements.
C5_NoErrorCondition ==
    remap_result # Pending =>
        /\ remap_result.outcome = "returned"
        /\ (Size(class_map) = 0 => Size(remap_result.value) = 0)

\* An array of two rows and no column has been remapped, to the same
C5_Witness ==
    /\ prev_result = Pending
    /\ class_map = np_array(<< <<>>, <<>> >>)
    /\ remap_result = Returned(np_array(<< <<>>, <<>> >>))

\* C6: remapping is idempotent: for every non-empty 2-D integer array M,
\* modify_class_map(modify_class_map(M)) equals modify_class_map(M) cell for
\* cell; and an array whose set of values is exactly {0..k-1} is returned unchanged.
C6_RemapIdempotent ==
    /\ (prev_result # Pending /\ Size(prev_result.value) > 0) =>
            remap_result = prev_result
    /\ (/\ remap_result # Pending
        /\ Len(class_map.shape) = 2
        /\ Size(class_map) > 0
        /\ Values(class_map) = 0..(Cardinality(Values(class_map)) - 1)) =>
            remap_result = Returned(class_map)

\* [[0, 9], [9, 21]] was remapped to [[0, 1], [1, 2]], and that remapped again
C6_Witness ==
    /\ prev_result = Returned(np_array(<< <<0, 1>>, <<1, 2>> >>))
    /\ remap_result = prev_result

----------------------------------------------------------------------------
(* Colorbar tick locations *)

\* Rationals <<numerator, denominator>>, denominator > 0: np.arange is followed
\* in exact arithmetic (its length in double arithmetic is the same for every
\* number of classes the catalog allows).
RECURSIVE Gcd(_, _)
Gcd(a, b) == IF b = 0 THEN a ELSE Gcd(b, a % b)

Abs(x) == IF x < 0 THEN -x ELSE x

Rat(n, d) == LET g == Gcd(Abs(n), d) IN <<n \div g, d \div g>>

RatAdd(a, b) == Rat(a[1] * b[2] + b[1] * a[2], a[2] * b[2])

RatSub(a, b) == Rat(a[1] * b[2] - b[1] * a[2], a[2] * b[2])

RatMul(a, b) == Rat(a[1] * b[1], a[2] * b[2])

\* a / b for b > 0
RatDiv(a, b) == Rat(a[1] * b[2], a[2] * b[1])

\* ceil(a)
Ceil(a) == -((-a[1]) \div a[2])

\* np.arange(start, stop, step), step > 0: ceil((stop - start) / step) values
\* start + i * step
np_arange(start, stop, step) ==
    LET n == Ceil(RatDiv(RatSub(stop, start), step))
    IN  [i \in 1..n |-> RatAdd(start, RatMul(Rat(i - 1, 1), step))]

\* step_length and loc of plot_class_map, plot_output and get_class_plot
TickLocations(k) ==
    IF k = 0
    THEN Raised("ZeroDivisionError")              \* float(-1) / float(0)
    ELSE LET step_length == Rat(k - 1, k)
         IN  IF k > 1
             THEN Returned(np_arange(RatDiv(step_length, Rat(2, 1)), Rat(k, 1), step_length))
             ELSE Returned(<<Rat(0, 1)>>)

----------------------------------------------------------------------------
(* Tick locations on their own: the distinct classes of a class map are    *)
(* given, the ticks of its colorbar are computed.                          *)

MaxDistinct == 4

TickCodes == {0, 4, 9, 16, 19, 21, 22}

IdleTicks == unique_classes = <<>> /\ loc = Pending

InitTicks ==
    /\ unique_classes \in {Ascending(S) : S \in {T \in SUBSET TickCodes : Cardinality(T) <= MaxDistinct}}
    /\ loc = Pending

ComputeTicks ==
    /\ loc = Pending
    /\ loc' = TickLocations(Len(unique_classes))
    /\ UNCHANGED unique_classes

\* C3: with k distinct classes the tick locations are exactly k values, the
\* i-th (i = 0..k-1) being (i + 0.5) * (k-1)/k; for k = 1 the single value 0,
\* for k = 4 [3/8, 9/8, 15/8, 21/8] with no further tick.
C3_OneTickPerClass ==
    (loc # Pending /\ Len(unique_classes) >= 1) =>
        LET k == Len(unique_classes)
        IN  /\ loc.outcome = "returned"
            /\ Len(loc.value) = k
            /\ \A i \in 0..(k - 1) : loc.value[i + 1] = Rat((2 * i + 1) * (k - 1), 2 * k)
            /\ (k = 1 => loc.value = << <<0, 1>> >>)
            /\ (k = 4 => loc.value = << <<3, 8>>, <<9, 8>>, <<15, 8>>, <<21, 8>> >>)

\* What the code computes: the k ticks of C3 and more after them, k + 1 in all
\* from three classes on and four for two classes.
TicksComputed ==
    (loc # Pending /\ Len(unique_classes) >= 2) =>
        LET k == Len(unique_classes)
        IN  /\ loc.outcome = "returned"
            /\ Len(loc.value) = (IF k = 2 THEN 4 ELSE k + 1)
            /\ \A i \in 0..(Len(loc.value) - 1) :
                  loc.value[i + 1] = Rat((2 * i + 1) * (k - 1), 2 * k)

----------------------------------------------------------------------------
(* Deriving the class map from the network output *)

\* A probability tensor (classes x height x width) is
\* [type |-> "ndarray", shape |-> <<C, H, W>>, data |-> ...]; the raw network
\* output is the dict {'prob': batch}, batch a sequence of such tensors.

\* The probabilities of all classes at one pixel
ClassAxis(P, i, j) == [c \in 1..P.shape[1] |-> P.data[c][i][j]]

\* The scan of argmax: a later class replaces the best so far only when
\* strictly greater, so the first of equal maxima is kept.
RECURSIVE ArgMaxScan(_, _, _)
ArgMaxScan(v, c, best) ==
    IF c > Len(v) THEN best
    ELSE ArgMaxScan(v, c + 1, IF v[c] > v[best] THEN c ELSE best)

\* The scan that keeps the last of equal maxima
RECURSIVE ArgMaxScanLast(_, _, _)
ArgMaxScanLast(v, c, best) ==
    IF c > Len(v) THEN best
    ELSE ArgMaxScanLast(v, c + 1, IF v[c] >= v[best] THEN c ELSE best)

\* P.argmax(axis=0): per pixel the (0-based) class of the highest probability
argmax_axis0(P) ==
    np_array([i \in 1..P.shape[2] |->
                [j \in 1..P.shape[3] |-> ArgMaxScan(ClassAxis(P, i, j), 1, 1) - 1]])

\* argmax with the last of equal maxima
argmax_axis0_last(P) ==
    np_array([i \in 1..P.shape[2] |->
                [j \in 1..P.shape[3] |-> ArgMaxScanLast(ClassAxis(P, i, j), 1, 1) - 1]])

\* The branch with its two arms computing the arg-max differently
DeriveClassMap_array_branch_differs(output) ==
    IF output.type = "dict"
    THEN argmax_axis0(output.prob[1])
    ELSE argmax_axis0_last(output)

\* The branch on the type of network_output that opens plot_class_map,
\* plot_abs_map, plot_output and get_class_plot
DeriveClassMap(output) ==
    IF output.type = "dict"
    THEN argmax_axis0(output.prob[1])         \* network_output['prob'][0].argmax(axis=0)
    ELSE argmax_axis0(output)                 \* network_output.argmax(axis=0)

NotDerived ==
    [class_map |-> np_array(<<>>), unique_classes |-> <<>>, modified |-> Pending,
     loc |-> Pending, tick_labels |-> Pending]

\* class_map, unique_classes and the remapped class map, as all four compute them
Prelude(output) ==
    LET cm == DeriveClassMap(output)
    IN  [class_map |-> cm, unique_classes |-> np_unique(cm), modified |-> modify_class_map(cm),
         loc |-> Pending, tick_labels |-> Pending]

\* ... and the colorbar's ticks and tick labels, as three of them go on to compute
WithColorbar(d) ==
    [d EXCEPT !.loc = TickLocations(Len(d.unique_classes)),
              !.tick_labels = get_tick_labels(d.unique_classes)]

----------------------------------------------------------------------------
(* The plotting entry points: a network output is given in one of its two  *)
(* forms and one of the four functions is called on it.                    *)

MaxClasses == 3

MaxPixels == 2

\* Probabilities, in tenths
ProbLevels == {2, 7}

ImageShapes == {s \in (1..MaxPixels) \X (1..MaxPixels) : s[1] * s[2] <= MaxPixels}

\* The two forms of the same probabilities
Forms(P) == {P, [type |-> "dict", prob |-> <<P>>]}

IdlePlot == network_output = None /\ caller = "none" /\ derived = NotDerived

InitPlot ==
    /\ \E n \in 1..MaxClasses, s \in ImageShapes :
          \E d \in [1..n -> [1..s[1] -> [1..s[2] -> ProbLevels]]] :
              network_output \in Forms([type |-> "ndarray", shape |-> <<n, s[1], s[2]>>, data |-> d])
    /\ caller = "none"
    /\ derived = NotDerived

plot_class_map ==
    /\ caller = "none"
    /\ caller' = "plot_class_map"
    /\ derived' = WithColorbar(Prelude(network_output))
    /\ UNCHANGED network_output

plot_abs_map ==
    /\ caller = "none"
    /\ caller' = "plot_abs_map"
    /\ derived' = Prelude(network_output)
    /\ UNCHANGED network_output

\* plot_output with an image, into a directory it could create
plot_output ==
    /\ caller = "none"
    /\ caller' = "plot_output"
    /\ derived' = WithColorbar(Prelude(network_output))
    /\ UNCHANGED network_output

get_class_plot ==
    /\ caller = "none"
    /\ caller' = "get_class_plot"
    /\ derived' = WithColorbar(Prelude(network_output))
    /\ UNCHANGED network_output

\* The tensor a network output holds, whichever its form
Probabilities(output) == IF output.type = "dict" THEN output.prob[1] ELSE output

\* The same probabilities in the other form
OtherForm(output) ==
    IF output.type = "dict" THEN output.prob[1] ELSE [type |-> "dict", prob |-> <<output>>]

\* code is the lowest class of highest probability in v
IsArgMax(v, code) ==
    /\ code + 1 \in 1..Len(v)
    /\ \A c \in 1..Len(v) : v[c] <= v[code + 1]
    /\ \A c \in 1..code : v[c] < v[code + 1]

----------------------------------------------------------------------------
(* runGUI_NCS.py: the launcher of the live demo *)

MaxPadding == 1

InputValues == {"cam", "clip.mp4", "frame.jpg"}

InputFiles == {"clip.mp4", "frame.jpg"}

\* The command line: --input may be missing (None), --model is optional,
\* --padding is an int
CommandLines ==
    [input : {None} \cup {PyStr(v) : v \in InputValues},
     model : {None, PyStr("model.xml")},
     padding : 0..MaxPadding]

IdleDemo ==
    /\ args = None /\ disk_files = {} /\ pc = "idle" /\ input_stream = None
    /\ video = None /\ sa = None /\ events = <<>>

InitDemo ==
    /\ args \in CommandLines
    /\ disk_files \in SUBSET InputFiles
    /\ pc = "start"
    /\ input_stream = None
    /\ video = None
    /\ sa = None
    /\ events = <<>>

\* caffe.set_mode_gpu(), logging set up, the command line parsed: argparse
\* exits when the required --input is missing
ParseArgs ==
    /\ pc = "start"
    /\ events' = Append(events, "parse_args")
    /\ pc' = IF args.input = None THEN "SystemExit" ELSE "parsed"
    /\ UNCHANGED <<args, disk_files, input_stream, video, sa>>

\* os.path.isfile(path)
isfile(path) == path \in disk_files

\* SelectInput without the assertion on the path
SelectInput_assert_dropped ==
    /\ pc = "parsed"
    /\ events' = Append(events, "select_input")
    /\ input_stream' = IF args.input.val = "cam" THEN [type |-> "int", val |-> 0] ELSE args.input
    /\ pc' = "selected"
    /\ UNCHANGED <<args, disk_files, video, sa>>

\* 'cam' selects device 0; any other value is taken as a path and asserted to
\* name a file
SelectInput ==
    /\ pc = "parsed"
    /\ events' = Append(events, "select_input")
    /\ IF args.input.val = "cam"
       THEN /\ input_stream' = [type |-> "int", val |-> 0]
            /\ pc' = "selected"
       ELSE /\ input_stream' = args.input
            /\ pc' = IF isfile(args.input.val) THEN "selected" ELSE "AssertionError"
    /\ UNCHANGED <<args, disk_files, video, sa>>

\* video = cv2.VideoCapture(input_stream)
OpenCapture ==
    /\ pc = "selected"
    /\ events' = Append(events, "open_capture")
    /\ video' = [type |-> "VideoCapture", source |-> input_stream]
    /\ pc' = "capture_open"
    /\ UNCHANGED <<args, disk_files, input_stream, sa>>

\* sa = SegmentationApp(video, args.model, args.padding)
ConstructApp ==
    /\ pc = "capture_open"
    /\ events' = Append(events, "construct_app")
    /\ sa' = [type |-> "SegmentationApp", video |-> video, model |-> args.model,
              padding |-> args.padding]
    /\ pc' = "app_built"
    /\ UNCHANGED <<args, disk_files, input_stream, video>>

\* sa.root.mainloop()
EnterMainLoop ==
    /\ pc = "app_built"
    /\ events' = Append(events, "mainloop")
    /\ pc' = "mainloop"
    /\ UNCHANGED <<args, disk_files, input_stream, video, sa>>

\* --input names neither 'cam' nor an existing file
InputMissing ==
    /\ args.input # None
    /\ args.input.val # "cam"
    /\ ~isfile(args.input.val)

Occurred(e) == \E i \in 1..Len(events) : events[i] = e

StartupOrder == <<"parse_args", "select_input", "open_capture", "construct_app", "mainloop">>

\* C7: started with an --input other than 'cam' that names no existing file,
\* the program aborts with an assertion failure before any resource is opened:
\* the capture is never opened, SegmentationApp never constructed, the main
\* loop never entered; with 'cam' or an existing file the steps happen in the
\* order validate input, open capture, construct app, enter main loop.
C7_MissingInputAbortsFirst ==
    /\ InputMissing =>
          /\ video = None /\ sa = None
          /\ ~Occurred("open_capture") /\ ~Occurred("construct_app") /\ ~Occurred("mainloop")
          /\ pc \in {"start", "parsed", "AssertionError"}
    /\ pc = "AssertionError" => InputMissing
    /\ Len(events) <= Len(StartupOrder)
    /\ \A i \in 1..Len(events) : events[i] = StartupOrder[i]
    /\ (video # None) <=> Occurred("open_capture")
    /\ (sa # None) <=> Occurred("construct_app")
    /\ (pc = "mainloop") <=> Occurred("mainloop")

\* The assertion has stopped a run whose --input names no file
C7_Witness ==
    /\ pc = "AssertionError"
    /\ args.input = PyStr("clip.mp4")
    /\ disk_files = {"frame.jpg"}
    /\ events = <<"parse_args", "select_input">>

----------------------------------------------------------------------------
(* plot_output and plot_probability_maps against the file system *)

\* A target directory: <root>/plots for a path the caller gave (stamp -1),
\* <cwd>/plots/<timestamp> when none was given. A file is [dir, name, num]:
\* "<num>.jpg" for the probability map of class num, else name (num -1).
Supplied(root) == [root |-> root, stamp |-> -1]

Stamped(t) == [root |-> "cwd", stamp |-> t]

\* path = os.path.join(path, "plots"), or the timestamped default
TargetDir(path) == IF path = None THEN Stamped(now) ELSE Supplied(path.val)

File(d, name) == [dir |-> d, name |-> name, num |-> -1]

ClassFile(d, class_num) == [dir |-> d, name |-> ".jpg", num |-> class_num]

NoCall == [fn |-> "none", path |-> None, image |-> FALSE, dir |-> Supplied(""), outcome |-> "none"]

\* os.makedirs(path) raises when path exists; open(..., "w+") creates the log;
\* image.shape fails on the default image=None; log.close() is the last statement
plot_output_files(path, image) ==
    LET d == TargetDir(path)
    IN  IF d \in dirs
        THEN /\ last_call' = [fn |-> "plot_output", path |-> path, image |-> image, dir |-> d,
                              outcome |-> "FileExistsError"]
             /\ UNCHANGED <<dirs, files, log_handles>>
        ELSE /\ dirs' = dirs \cup {d}
             /\ IF image
                THEN /\ files' = files \cup {File(d, "test_log.txt"), File(d, "class_map.jpg"),
                                             File(d, "confidence_map.jpg")}
                                       \cup {ClassFile(d, n) : n \in DOMAIN CLASS_LIST}
                     /\ log_handles' = log_handles
                     /\ last_call' = [fn |-> "plot_output", path |-> path, image |-> image, dir |-> d,
                                      outcome |-> "returned"]
                ELSE /\ files' = files \cup {File(d, "test_log.txt")}
                     /\ log_handles' = log_handles \cup {d}
                     /\ last_call' = [fn |-> "plot_output", path |-> path, image |-> image, dir |-> d,
                                      outcome |-> "AttributeError"]

\* one image per probability map, numbered from 0
plot_probability_maps_files(path) ==
    LET d == TargetDir(path)
    IN  IF d \in dirs
        THEN /\ last_call' = [fn |-> "plot_probability_maps", path |-> path, image |-> FALSE, dir |-> d,
                              outcome |-> "FileExistsError"]
             /\ UNCHANGED <<dirs, files, log_handles>>
        ELSE /\ dirs' = dirs \cup {d}
             /\ files' = files \cup {ClassFile(d, n) : n \in DOMAIN CLASS_LIST}
             /\ last_call' = [fn |-> "plot_probability_maps", path |-> path, image |-> FALSE, dir |-> d,
                              outcome |-> "returned"]
             /\ UNCHANGED log_handles

----------------------------------------------------------------------------
(* Sequences of saving calls *)

MaxClock == 1

CallerPaths == {"out", "run"}

PathArgs == {None} \cup {PyStr(r) : r \in CallerPaths}

IdleFiles ==
    /\ now = 0 /\ dirs = {} /\ files = {} /\ log_handles = {} /\ last_call = NoCall

InitFiles ==
    /\ now = 0
    /\ dirs = {}
    /\ files = {}
    /\ log_handles = {}
    /\ last_call = NoCall

CallPlotOutput ==
    \E path \in PathArgs, image \in BOOLEAN :
        /\ plot_output_files(path, image)
        /\ UNCHANGED now

CallPlotProbabilityMaps ==
    \E path \in PathArgs :
        /\ plot_probability_maps_files(path)
        /\ UNCHANGED now

\* The clock that names the default directory moves on
Tick ==
    /\ now < MaxClock
    /\ now' = now + 1
    /\ UNCHANGED <<dirs, files, log_handles, last_call>>

\* A log file object no name refers to any more is closed by the interpreter
Finalize ==
    \E d \in log_handles :
        /\ log_handles' = log_handles \ {d}
        /\ UNCHANGED <<now, dirs, files, last_call>>

\* C8: the target directory of a saving call is created if absent: every
\* plot_output / plot_probability_maps call given a path p (and, for
\* plot_output, an image) leaves <p>/plots existing and goes on to write its
\* image files, whether <p>/plots was absent before the call or already present.
C8_TargetDirectoryCreatedIfAbsent ==
    (/\ last_call.fn # "none"
     /\ last_call.path # None
     /\ (last_call.fn = "plot_output" => last_call.image)) =>
        LET d == Supplied(last_call.path.val)
        IN  /\ last_call.outcome = "returned"
            /\ d \in dirs
            /\ \A n \in DOMAIN CLASS_LIST : ClassFile(d, n) \in files

\* What holds of a call whose target directory was absent: it is created
TargetDirectoryCreatedWhenAbsent ==
    [][(last_call' # last_call /\ last_call'.dir \notin dirs) => last_call'.dir \in dirs']_vars

\* C10: plot_output closes the log file it opened on every exit path: when a
\* call that opened test_log.txt has ended, normally or by a failure raised
\* after the file was opened, the handle is closed.
C10_LogClosedOnEveryExit ==
    (last_call.fn = "plot_output" /\ last_call.outcome # "FileExistsError") =>
        last_call.dir \notin log_handles

----------------------------------------------------------------------------
(* Specifications: one per part; the variables of the other parts stay idle *)

InitLabelsSpec == InitLabels /\ IdleRemap /\ IdleTicks /\ IdlePlot /\ IdleDemo /\ IdleFiles

NextLabels ==
    \/ CallGetClassNames /\ UNCHANGED <<remapVars, tickVars, plotVars, demoVars, fileVars>>
    \/ CallGetTickLabels /\ UNCHANGED <<remapVars, tickVars, plotVars, demoVars, fileVars>>

SpecLabels == InitLabelsSpec /\ [][NextLabels]_vars

InitRemapSpec == IdleLabels /\ InitRemap /\ IdleTicks /\ IdlePlot /\ IdleDemo /\ IdleFiles

NextRemap ==
    \/ CallModifyClassMap /\ UNCHANGED <<labelVars, tickVars, plotVars, demoVars, fileVars>>
    \/ RemapAgain /\ UNCHANGED <<labelVars, tickVars, plotVars, demoVars, fileVars>>

SpecRemap == InitRemapSpec /\ [][NextRemap]_vars

InitTicksSpec == IdleLabels /\ IdleRemap /\ InitTicks /\ IdlePlot /\ IdleDemo /\ IdleFiles

NextTicks == ComputeTicks /\ UNCHANGED <<labelVars, remapVars, plotVars, demoVars, fileVars>>

SpecTicks == InitTicksSpec /\ [][NextTicks]_vars

InitPlotSpec == IdleLabels /\ IdleRemap /\ IdleTicks /\ InitPlot /\ IdleDemo /\ IdleFiles

NextPlot ==
    \/ plot_class_map /\ UNCHANGED <<labelVars, remapVars, tickVars, demoVars, fileVars>>
    \/ plot_abs_map /\ UNCHANGED <<labelVars, remapVars, tickVars, demoVars, fileVars>>
    \/ plot_output /\ UNCHANGED <<labelVars, remapVars, tickVars, demoVars, fileVars>>
    \/ get_class_plot /\ UNCHANGED <<labelVars, remapVars, tickVars, demoVars, fileVars>>

SpecPlot == InitPlotSpec /\ [][NextPlot]_vars

InitDemoSpec == IdleLabels /\ IdleRemap /\ IdleTicks /\ IdlePlot /\ InitDemo /\ IdleFiles

NextDemo ==
    \/ ParseArgs /\ UNCHANGED <<labelVars, remapVars, tickVars, plotVars, fileVars>>
    \/ SelectInput /\ UNCHANGED <<labelVars, remapVars, tickVars, plotVars, fileVars>>
    \/ OpenCapture /\ UNCHANGED <<labelVars, remapVars, tickVars, plotVars, fileVars>>
    \/ ConstructApp /\ UNCHANGED <<labelVars, remapVars, tickVars, plotVars, fileVars>>
    \/ EnterMainLoop /\ UNCHANGED <<labelVars, remapVars, tickVars, plotVars, fileVars>>

SpecDemo == InitDemoSpec /\ [][NextDemo]_vars

InitFilesSpec == IdleLabels /\ IdleRemap /\ IdleTicks /\ IdlePlot /\ IdleDemo /\ InitFiles

NextFiles ==
    \/ CallPlotOutput /\ UNCHANGED <<labelVars, remapVars, tickVars, plotVars, demoVars>>
    \/ CallPlotProbabilityMaps /\ UNCHANGED <<labelVars, remapVars, tickVars, plotVars, demoVars>>
    \/ Tick /\ UNCHANGED <<labelVars, remapVars, tickVars, plotVars, demoVars>>
    \/ Finalize /\ UNCHANGED <<labelVars, remapVars, tickVars, plotVars, demoVars>>

SpecFiles == InitFilesSpec /\ [][NextFiles]_vars

====
